---- MODULE Spec2Model ----
(***************************************************************************)
(* A model of the wire-level data path of rpyc: the Brine value codec      *)
(* (rpyc/core/brine.py), the SocketStream duplex stream                     *)
(* (rpyc/core/stream.py) and the backoff connection establisher             *)
(* (rpyc/lib/__init__.py), with the exception classes of                    *)
(* rpyc/external/socket.py.                                                 *)
(***************************************************************************)
EXTENDS Integers, Sequences, FiniteSets, TLC

VARIABLES
    \* ---- Brine: one codec experiment
    obj,        \* the in-memory value handed to dump / dumpable
    origin,     \* where `data` comes from: "value", "dump", "cut" or "raw"
    data,       \* the byte buffer handed to load
    dres,       \* outcome of dump(obj)
    able,       \* outcome of dumpable(obj)
    lres,       \* outcome of load(data)
    \* ---- SocketStream: one stream, its endpoint and one call in progress
    sock,       \* self.sock: "socket" (a live endpoint) or "ClosedFile"
    endpoint,   \* the OS endpoint: [shut, closed]
    rpos,       \* number of bytes the transport has delivered so far
    accepted,   \* bytes the transport accepted from send calls, in order
    call,       \* the call in progress (locals and program counter)
    ret,        \* outcome of the last finished call
    hist,       \* what has been observed of the stream's history
    closer,     \* a second execution context that calls close()
    \* ---- socket_backoff_connect / SocketStream._connect: one call
    conn        \* locals, program counter and event log of the call

bvars == <<obj, origin, data, dres, able, lres>>
svars == <<sock, endpoint, rpos, accepted, call, ret, hist, closer>>
cvars == <<conn>>
vars == <<obj, origin, data, dres, able, lres,
          sock, endpoint, rpos, accepted, call, ret, hist, closer, conn>>

(***************************************************************************)
(* Generic helpers on sequences                                            *)
(***************************************************************************)
Min(a, b) == IF a < b THEN a ELSE b

Reverse(s) == [i \in 1..Len(s) |-> s[Len(s) + 1 - i]]

Range(s) == {s[i] : i \in 1..Len(s)}

RECURSIVE SetToSeq(_)
\* tuple(frozenset): the elements in the iteration order the interpreter picks
SetToSeq(S) ==
    IF S = {} THEN <<>>
    ELSE LET x == CHOOSE y \in S : TRUE
         IN <<x>> \o SetToSeq(S \ {x})

(***************************************************************************)
(* Python values.  Every value is [k |-> type name, v |-> payload].        *)
(*   float   : the 8 bytes of the IEEE-754 double in host (little-endian)  *)
(*             order; complex: <<real, imag>>, two such doubles            *)
(*   bytes   : sequence of 0..255;  str: sequence of code points           *)
(*   slice   : <<start, stop, step>>;  tuple, list: sequence of values     *)
(*   frozenset: a set of values                                            *)
(***************************************************************************)
PyNone == [k |-> "NoneType", v |-> 0]
PyNotImplemented == [k |-> "NotImplementedType", v |-> 0]
PyEllipsis == [k |-> "ellipsis", v |-> 0]
PyBool(b) == [k |-> "bool", v |-> b]
PyInt(i) == [k |-> "int", v |-> i]
PyFloat(b) == [k |-> "float", v |-> b]
PyComplex(re, im) == [k |-> "complex", v |-> <<re, im>>]
PyBytes(s) == [k |-> "bytes", v |-> s]
PyStr(s) == [k |-> "str", v |-> s]
PySlice(a, b, c) == [k |-> "slice", v |-> <<a, b, c>>]
PyTuple(s) == [k |-> "tuple", v |-> s]
PyFrozenset(S) == [k |-> "frozenset", v |-> S]
PyList(s) == [k |-> "list", v |-> s]

\* outcome of a call: a returned value, or a raised exception class
Ok(v) == [err |-> "ok", v |-> v]
Raise(e) == [err |-> e, v |-> <<>>]

\* rpyc.lib.compat.is_py3k: the sources are Python 3 only (async def,
\* keyword-only arguments in rpyc/external), so the py3k branches are taken
is_py3k == TRUE

(***************************************************************************)
(* Tags (brine.py 24-51)                                                   *)
(***************************************************************************)
TAG_NONE == 0
TAG_EMPTY_STR == 1
TAG_EMPTY_TUPLE == 2
TAG_TRUE == 3
TAG_FALSE == 4
TAG_NOT_IMPLEMENTED == 5
TAG_ELLIPSIS == 6
TAG_UNICODE == 8
TAG_LONG == 9
TAG_STR1 == 10
TAG_STR2 == 11
TAG_STR3 == 12
TAG_STR4 == 13
TAG_STR_L1 == 14
TAG_STR_L4 == 15
TAG_TUP1 == 16
TAG_TUP2 == 17
TAG_TUP3 == 18
TAG_TUP4 == 19
TAG_TUP_L1 == 20
TAG_TUP_L4 == 21
TAG_INT_L1 == 22
TAG_INT_L4 == 23
TAG_FLOAT == 24
TAG_SLICE == 25
TAG_FSET == 26
TAG_COMPLEX == 27

\* the range of immediate integers reaches one further: range(-0x30, 0xa1)
IMM_INTS_to_0xa0 == [i \in (0 - 48)..160 |-> i + 80]

\* IMM_INTS = {i: bytes([i + 0x50]) for i in range(-0x30, 0xa0)}
IMM_INTS == [i \in (0 - 48)..159 |-> i + 80]

\* IMM_INTS_LOADER = {v: k for k, v in IMM_INTS.items()}
IMM_INTS_LOADER == [b \in {IMM_INTS[i] : i \in DOMAIN IMM_INTS} |->
                       CHOOSE i \in DOMAIN IMM_INTS : IMM_INTS[i] = b]

(***************************************************************************)
(* struct.Struct("!B"), ("!L"), ("!d"), ("!dd")                            *)
(***************************************************************************)
I1_pack(n) == IF n \in 0..255 THEN Ok(<<n>>) ELSE Raise("struct.error")

\* a length the model can represent is below 2^31, so "!L" always fits
I4_pack(n) ==
    IF n < 0 THEN Raise("struct.error")
    ELSE Ok(<<(n \div 16777216) % 256, (n \div 65536) % 256,
              (n \div 256) % 256, n % 256>>)

I1_unpack(b) == IF Len(b) = 1 THEN Ok(b[1]) ELSE Raise("struct.error")

\* values of 2^31 and more are represented by 2^31 - 1: every buffer of the
\* model is shorter than that, so reads and element counts behave alike
I4_unpack(b) ==
    IF Len(b) # 4 THEN Raise("struct.error")
    ELSE IF b[1] >= 128 THEN Ok(2147483647)
    ELSE Ok(b[1] * 16777216 + b[2] * 65536 + b[3] * 256 + b[4])

\* network byte order is the reverse of the host's little-endian order
F8_pack(x) == Reverse(x)

F8_unpack(b) == IF Len(b) = 8 THEN Ok(Reverse(b)) ELSE Raise("struct.error")

C16_pack(re, im) == Reverse(re) \o Reverse(im)

C16_unpack(b) ==
    IF Len(b) = 16 THEN Ok(<<Reverse(SubSeq(b, 1, 8)), Reverse(SubSeq(b, 9, 16))>>)
    ELSE Raise("struct.error")

(***************************************************************************)
(* Text conversions: str(int), int(text), UTF-8 and ASCII transcoding      *)
(***************************************************************************)
RECURSIVE Digits(_)
Digits(n) == IF n < 10 THEN <<48 + n>> ELSE Digits(n \div 10) \o <<48 + (n % 10)>>

\* BYTES_LITERAL(str(obj)): the decimal ASCII text of an integer
int_to_ascii(i) == IF i < 0 THEN <<45>> \o Digits(0 - i) ELSE Digits(i)

IsSpace(c) == c \in {9, 10, 11, 12, 13, 32}

IsDigit(c) == c \in 48..57

RECURSIVE LStrip(_)
LStrip(s) == IF s # <<>> /\ IsSpace(s[1]) THEN LStrip(Tail(s)) ELSE s

Strip(s) == Reverse(LStrip(Reverse(LStrip(s))))

RECURSIVE DigitsValue(_, _)
DigitsValue(s, acc) ==
    IF s = <<>> THEN acc
    ELSE IF s[1] = 95 THEN DigitsValue(Tail(s), acc)
    ELSE DigitsValue(Tail(s), acc * 10 + (s[1] - 48))

\* int(text) for a str or a bytes object holding `s`: surrounding white
\* space, an optional sign, decimal digits with single underscores between
py_int_of_text(s) ==
    LET t == Strip(s)
        signed == t # <<>> /\ t[1] \in {43, 45}
        body == IF signed THEN Tail(t) ELSE t
        wellformed ==
            /\ body # <<>>
            /\ IsDigit(body[1]) /\ IsDigit(body[Len(body)])
            /\ \A i \in 1..Len(body) : IsDigit(body[i]) \/ body[i] = 95
            /\ \A i \in 1..(Len(body) - 1) : ~(body[i] = 95 /\ body[i + 1] = 95)
    IN IF ~wellformed THEN Raise("ValueError")
       ELSE IF signed /\ t[1] = 45 THEN Ok(PyInt(0 - DigitsValue(body, 0)))
       ELSE Ok(PyInt(DigitsValue(body, 0)))

IsSurrogate(c) == c \in 55296..57343

\* the UTF-8 bytes of one code point
utf8_of(c) ==
    IF c < 128 THEN <<c>>
    ELSE IF c < 2048 THEN <<192 + (c \div 64), 128 + (c % 64)>>
    ELSE IF c < 65536 THEN
        <<224 + (c \div 4096), 128 + ((c \div 64) % 64), 128 + (c % 64)>>
    ELSE <<240 + (c \div 262144), 128 + ((c \div 4096) % 64),
           128 + ((c \div 64) % 64), 128 + (c % 64)>>

RECURSIVE utf8_from(_, _, _)
\* the UTF-8 bytes of s[lo..hi], by halves
utf8_from(s, lo, hi) ==
    IF lo > hi THEN <<>>
    ELSE IF lo = hi THEN utf8_of(s[lo])
    ELSE LET mid == (lo + hi) \div 2
         IN utf8_from(s, lo, mid) \o utf8_from(s, mid + 1, hi)

\* str.encode("utf8"): a lone surrogate cannot be encoded
utf8_encode(s) ==
    IF \E i \in 1..Len(s) : IsSurrogate(s[i]) THEN Raise("UnicodeEncodeError")
    ELSE Ok(utf8_from(s, 1, Len(s)))

IsCont(b, i) == i <= Len(b) /\ b[i] \in 128..191

RECURSIVE utf8_decode(_)
\* bytes.decode("utf-8"), strict
utf8_decode(b) ==
    IF b = <<>> THEN Ok(<<>>)
    ELSE
      LET b1 == b[1]
          n == IF b1 < 128 THEN 1
               ELSE IF b1 \in 194..223 THEN 2
               ELSE IF b1 \in 224..239 THEN 3
               ELSE IF b1 \in 240..244 THEN 4
               ELSE 0
          conts == n > 0 /\ \A i \in 2..n : IsCont(b, i)
          cp == IF n = 1 THEN b1
                ELSE IF n = 2 THEN (b1 - 192) * 64 + (b[2] - 128)
                ELSE IF n = 3 THEN
                    (b1 - 224) * 4096 + (b[2] - 128) * 64 + (b[3] - 128)
                ELSE (b1 - 240) * 262144 + (b[2] - 128) * 4096
                     + (b[3] - 128) * 64 + (b[4] - 128)
          valid == /\ conts
                   /\ n = 3 => (cp >= 2048 /\ ~IsSurrogate(cp))
                   /\ n = 4 => cp \in 65536..1114111
      IN IF ~valid THEN Raise("UnicodeDecodeError")
         ELSE LET rest == utf8_decode(SubSeq(b, n + 1, Len(b)))
              IN IF rest.err # "ok" THEN rest ELSE Ok(<<cp>> \o rest.v)

\* bytes.decode('ascii')
ascii_decode(b) ==
    IF \A i \in 1..Len(b) : b[i] < 128 THEN Ok(b) ELSE Raise("UnicodeDecodeError")

(***************************************************************************)
(* Dumping (brine.py 76-192, 371-380, 394-414)                             *)
(***************************************************************************)
\* the keys of _dump_registry under Python 3
dump_registry_types ==
    {"NoneType", "NotImplementedType", "ellipsis", "bool", "slice",
     "frozenset", "int", "float", "complex", "bytes", "str", "tuple"}

simple_types ==
    {"NoneType", "int", "bool", "float", "bytes", "str", "complex",
     "NotImplementedType", "ellipsis"}

_dump_none(o) == Ok(<<TAG_NONE>>)

_dump_notimplemeted(o) == Ok(<<TAG_NOT_IMPLEMENTED>>)

_dump_ellipsis(o) == Ok(<<TAG_ELLIPSIS>>)

_dump_bool(o) == IF o.v THEN Ok(<<TAG_TRUE>>) ELSE Ok(<<TAG_FALSE>>)

\* append tag + pack(length) + payload, or fail as pack fails
Prefixed(tag, packed, payload) ==
    IF packed.err # "ok" THEN packed ELSE Ok(<<tag>> \o packed.v \o payload)

_dump_int(o) ==
    IF o.v \in DOMAIN IMM_INTS THEN Ok(<<IMM_INTS[o.v]>>)
    ELSE LET text == int_to_ascii(o.v)
             lenobj == Len(text)
         IN IF lenobj < 256 THEN Prefixed(TAG_INT_L1, I1_pack(lenobj), text)
            ELSE Prefixed(TAG_INT_L4, I4_pack(lenobj), text)

_dump_float(o) == Ok(<<TAG_FLOAT>> \o F8_pack(o.v))

_dump_complex(o) == Ok(<<TAG_COMPLEX>> \o C16_pack(o.v[1], o.v[2]))

\* the 8-bit length form is taken up to length 256
_dump_bytes_l1_to_256(b) ==
    LET lenobj == Len(b)
    IN IF lenobj = 0 THEN Ok(<<TAG_EMPTY_STR>>)
       ELSE IF lenobj <= 4 THEN Ok(<<TAG_STR1 + (lenobj - 1)>> \o b)
       ELSE IF lenobj <= 256 THEN Prefixed(TAG_STR_L1, I1_pack(lenobj), b)
       ELSE Prefixed(TAG_STR_L4, I4_pack(lenobj), b)

\* _dump_bytes applied to the byte sequence b
_dump_bytes(b) ==
    LET lenobj == Len(b)
    IN IF lenobj = 0 THEN Ok(<<TAG_EMPTY_STR>>)
       ELSE IF lenobj = 1 THEN Ok(<<TAG_STR1>> \o b)
       ELSE IF lenobj = 2 THEN Ok(<<TAG_STR2>> \o b)
       ELSE IF lenobj = 3 THEN Ok(<<TAG_STR3>> \o b)
       ELSE IF lenobj = 4 THEN Ok(<<TAG_STR4>> \o b)
       ELSE IF lenobj < 256 THEN Prefixed(TAG_STR_L1, I1_pack(lenobj), b)
       ELSE Prefixed(TAG_STR_L4, I4_pack(lenobj), b)

_dump_str(o) ==
    LET enc == utf8_encode(o.v)
    IN IF enc.err # "ok" THEN enc
       ELSE LET inner == _dump_bytes(enc.v)
            IN IF inner.err # "ok" THEN inner ELSE Ok(<<TAG_UNICODE>> \o inner.v)

\* the tag (and count field) _dump_tuple writes before the items
tuple_header(lenobj) ==
    IF lenobj = 0 THEN Ok(<<TAG_EMPTY_TUPLE>>)
    ELSE IF lenobj = 1 THEN Ok(<<TAG_TUP1>>)
    ELSE IF lenobj = 2 THEN Ok(<<TAG_TUP2>>)
    ELSE IF lenobj = 3 THEN Ok(<<TAG_TUP3>>)
    ELSE IF lenobj = 4 THEN Ok(<<TAG_TUP4>>)
    ELSE IF lenobj < 256 THEN Prefixed(TAG_TUP_L1, I1_pack(lenobj), <<>>)
    ELSE Prefixed(TAG_TUP_L4, I4_pack(lenobj), <<>>)

_undumpable(o) == Raise("TypeError")

RECURSIVE _dump(_)
RECURSIVE dump_range(_, _, _)
\* for item in obj[lo..hi]: _dump(item, stream) -- the first failure ends
\* the loop; the range is walked by halves, left half first
dump_range(items, lo, hi) ==
    IF lo > hi THEN Ok(<<>>)
    ELSE IF lo = hi THEN _dump(items[lo])
    ELSE LET mid == (lo + hi) \div 2
             left == dump_range(items, lo, mid)
         IN IF left.err # "ok" THEN left
            ELSE LET right == dump_range(items, mid + 1, hi)
                 IN IF right.err # "ok" THEN right ELSE Ok(left.v \o right.v)

dump_items(items) == dump_range(items, 1, Len(items))

_dump_tuple(items) ==
    LET head == tuple_header(Len(items))
    IN IF head.err # "ok" THEN head
       ELSE LET body == dump_items(items)
            IN IF body.err # "ok" THEN body ELSE Ok(head.v \o body.v)

_dump_slice(o) ==
    LET t == _dump_tuple(o.v)
    IN IF t.err # "ok" THEN t ELSE Ok(<<TAG_SLICE>> \o t.v)

_dump_frozenset(o) ==
    LET t == _dump_tuple(SetToSeq(o.v))
    IN IF t.err # "ok" THEN t ELSE Ok(<<TAG_FSET>> \o t.v)

\* _dump_registry.get(type(obj), _undumpable)(obj, stream); the result is
\* the bytes appended to the stream, or the exception raised
_dump(o) ==
    CASE o.k = "NoneType" -> _dump_none(o)
      [] o.k = "NotImplementedType" -> _dump_notimplemeted(o)
      [] o.k = "ellipsis" -> _dump_ellipsis(o)
      [] o.k = "bool" -> _dump_bool(o)
      [] o.k = "slice" -> _dump_slice(o)
      [] o.k = "frozenset" -> _dump_frozenset(o)
      [] o.k = "int" -> _dump_int(o)
      [] o.k = "float" -> _dump_float(o)
      [] o.k = "complex" -> _dump_complex(o)
      [] o.k = "bytes" -> _dump_bytes(o.v)
      [] o.k = "str" -> _dump_str(o)
      [] o.k = "tuple" -> _dump_tuple(o.v)
      [] OTHER -> _undumpable(o)

\* dump(obj): b"".join(stream) when _dump returns, else its exception
dump(o) == _dump(o)

RECURSIVE dumpable(_)
dumpable(o) ==
    IF o.k \in simple_types THEN TRUE
    ELSE IF o.k = "tuple" THEN \A i \in 1..Len(o.v) : dumpable(o.v[i])
    ELSE IF o.k = "frozenset" THEN \A x \in o.v : dumpable(x)
    ELSE IF o.k = "slice" THEN dumpable(o.v[1]) /\ dumpable(o.v[2]) /\ dumpable(o.v[3])
    ELSE FALSE

(***************************************************************************)
(* Loading (brine.py 194-364, 383-391).  The stream is BytesIO(data): the  *)
(* buffer `d` and a position; a call returns [err, v, pos].                *)
(***************************************************************************)
LOk(v, pos) == [err |-> "ok", v |-> v, pos |-> pos]
LRaise(e) == [err |-> e, v |-> <<>>, pos |-> 0]

\* BytesIO.read(n): the next n bytes, or as many as remain
stream_read(d, pos, n) == SubSeq(d, pos + 1, pos + Min(n, Len(d) - pos))

\* the stream's position after that read
stream_tell(d, pos, n) == pos + Min(n, Len(d) - pos)

\* int(float): truncation towards zero of an IEEE-754 double given by its
\* little-endian bytes; results are below 2^31
float_trunc(x) ==
    LET negative == x[8] >= 128
        biased == (x[8] % 128) * 16 + (x[7] \div 16)
        e == biased - 1023
        top28 == (((x[7] % 16) * 256 + x[6]) * 256 + x[5]) * 256 + x[4]
        nomantissa == top28 = 0 /\ x[3] = 0 /\ x[2] = 0 /\ x[1] = 0
        magnitude ==
            CASE e < 0 -> 0
              [] e \in 0..28 -> (268435456 + top28) \div (2 ^ (28 - e))
              [] e \in 29..30 -> (268435456 + top28) * (2 ^ (e - 28))
                                 + (x[3] \div (2 ^ (36 - e)))
    IN IF biased = 2047
       THEN (IF nomantissa THEN Raise("OverflowError") ELSE Raise("ValueError"))
       ELSE Ok(PyInt(IF negative THEN 0 - magnitude ELSE magnitude))

\* int(obj)
py_int(o) ==
    CASE o.k = "int" -> Ok(o)
      [] o.k = "bool" -> Ok(PyInt(IF o.v THEN 1 ELSE 0))
      [] o.k \in {"str", "bytes"} -> py_int_of_text(o.v)
      [] o.k = "float" -> float_trunc(o.v)
      [] OTHER -> Raise("TypeError")

\* iter(obj): the items iteration yields, or TypeError
py_iter(o) ==
    CASE o.k = "tuple" -> Ok(o.v)
      [] o.k = "str" -> Ok([i \in 1..Len(o.v) |-> PyStr(<<o.v[i]>>)])
      [] o.k = "bytes" -> Ok([i \in 1..Len(o.v) |-> PyInt(o.v[i])])
      [] o.k = "frozenset" -> Ok(SetToSeq(o.v))
      [] OTHER -> Raise("TypeError")

RECURSIVE hashable(_)
\* hash(obj) succeeds (slice objects are unhashable before Python 3.12)
hashable(o) ==
    CASE o.k = "slice" -> FALSE
      [] o.k = "tuple" -> \A i \in 1..Len(o.v) : hashable(o.v[i])
      [] OTHER -> TRUE

\* a bool equals (and hashes as) the int 0 or 1
py_key(o) == IF o.k = "bool" THEN PyInt(IF o.v THEN 1 ELSE 0) ELSE o

\* frozenset(items): of equal items the first one met is kept
py_frozenset(items) ==
    IF \E i \in 1..Len(items) : ~hashable(items[i]) THEN Raise("TypeError")
    ELSE Ok(PyFrozenset({items[i] : i \in
               {j \in 1..Len(items) :
                   \A h \in 1..(j - 1) : py_key(items[h]) # py_key(items[j])}}))

read_str(d, pos, l) ==
    LET raw == stream_read(d, pos, l)
        after == stream_tell(d, pos, l)
    IN IF is_py3k
       THEN LET text == ascii_decode(raw)
            IN IF text.err # "ok" THEN LRaise(text.err)
               ELSE LOk(PyStr(text.v), after)
       ELSE LOk(PyBytes(raw), after)

\* l, = I1.unpack(stream.read(1))
read_len1(d, pos) ==
    LET l == I1_unpack(stream_read(d, pos, 1))
    IN IF l.err # "ok" THEN LRaise(l.err) ELSE LOk(l.v, stream_tell(d, pos, 1))

\* l, = I4.unpack(stream.read(4))
read_len4(d, pos) ==
    LET l == I4_unpack(stream_read(d, pos, 4))
    IN IF l.err # "ok" THEN LRaise(l.err) ELSE LOk(l.v, stream_tell(d, pos, 4))

_load_float(d, pos) ==
    LET x == F8_unpack(stream_read(d, pos, 8))
    IN IF x.err # "ok" THEN LRaise(x.err)
       ELSE LOk(PyFloat(x.v), stream_tell(d, pos, 8))

_load_complex(d, pos) ==
    LET x == C16_unpack(stream_read(d, pos, 16))
    IN IF x.err # "ok" THEN LRaise(x.err)
       ELSE LOk(PyComplex(x.v[1], x.v[2]), stream_tell(d, pos, 16))

_load_str_l1(d, pos) ==
    LET l == read_len1(d, pos)
    IN IF l.err # "ok" THEN l ELSE read_str(d, l.pos, l.v)

_load_str_l4(d, pos) ==
    LET l == read_len4(d, pos)
    IN IF l.err # "ok" THEN l ELSE read_str(d, l.pos, l.v)

\* int(stream.read(l))
read_int(d, pos, l) ==
    LET i == py_int_of_text(stream_read(d, pos, l))
    IN IF i.err # "ok" THEN LRaise(i.err) ELSE LOk(i.v, stream_tell(d, pos, l))

_load_int_l1(d, pos) ==
    LET l == read_len1(d, pos)
    IN IF l.err # "ok" THEN l ELSE read_int(d, l.pos, l.v)

_load_int_l4(d, pos) ==
    LET l == read_len4(d, pos)
    IN IF l.err # "ok" THEN l ELSE read_int(d, l.pos, l.v)

RECURSIVE _load(_, _)
RECURSIVE load_items(_, _, _)
\* l calls of _load in a row, left to right; the first failure ends them
\* (the l calls are split in halves, the left half made first)
load_items(d, pos, l) ==
    IF l = 0 THEN LOk(<<>>, pos)
    ELSE IF l = 1 THEN
        LET one == _load(d, pos)
        IN IF one.err # "ok" THEN one ELSE LOk(<<one.v>>, one.pos)
    ELSE LET left == load_items(d, pos, l \div 2)
         IN IF left.err # "ok" THEN left
            ELSE LET right == load_items(d, left.pos, l - (l \div 2))
                 IN IF right.err # "ok" THEN right
                    ELSE LOk(left.v \o right.v, right.pos)

\* _load_tup1 .. _load_tup4: a tuple display of n _load calls
_load_tupn(d, pos, n) ==
    LET items == load_items(d, pos, n)
    IN IF items.err # "ok" THEN items ELSE LOk(PyTuple(items.v), items.pos)

_load_tup_l1(d, pos) ==
    LET l == read_len1(d, pos)
    IN IF l.err # "ok" THEN l ELSE _load_tupn(d, l.pos, l.v)

_load_tup_l4(d, pos) ==
    LET l == read_len4(d, pos)
    IN IF l.err # "ok" THEN l ELSE _load_tupn(d, l.pos, l.v)

_load_long(d, pos) ==
    LET o == _load(d, pos)
    IN IF o.err # "ok" THEN o
       ELSE LET i == py_int(o.v)
            IN IF i.err # "ok" THEN LRaise(i.err) ELSE LOk(i.v, o.pos)

_load_unicode(d, pos) ==
    LET o == _load(d, pos)
    IN IF o.err # "ok" THEN o
       ELSE IF o.v.k # "bytes" THEN LRaise("AttributeError")
       ELSE LET text == utf8_decode(o.v.v)
            IN IF text.err # "ok" THEN LRaise(text.err)
               ELSE LOk(PyStr(text.v), o.pos)

\* start, stop, step = _load(stream)
_load_slice(d, pos) ==
    LET o == _load(d, pos)
    IN IF o.err # "ok" THEN o
       ELSE LET items == py_iter(o.v)
            IN IF items.err # "ok" THEN LRaise(items.err)
               ELSE IF Len(items.v) # 3 THEN LRaise("ValueError")
               ELSE LOk(PySlice(items.v[1], items.v[2], items.v[3]), o.pos)

_load_frozenset(d, pos) ==
    LET o == _load(d, pos)
    IN IF o.err # "ok" THEN o
       ELSE LET items == py_iter(o.v)
            IN IF items.err # "ok" THEN LRaise(items.err)
               ELSE LET fs == py_frozenset(items.v)
                    IN IF fs.err # "ok" THEN LRaise(fs.err) ELSE LOk(fs.v, o.pos)

\* the keys of _load_registry
load_registry_tags == (TAG_NONE..TAG_ELLIPSIS) \cup (TAG_UNICODE..TAG_COMPLEX)

\* _load_registry[tag](stream), the stream standing after the tag
load_handler(tag, d, pos) ==
    CASE tag = TAG_NONE -> LOk(PyNone, pos)
      [] tag = TAG_NOT_IMPLEMENTED -> LOk(PyNotImplemented, pos)
      [] tag = TAG_ELLIPSIS -> LOk(PyEllipsis, pos)
      [] tag = TAG_TRUE -> LOk(PyBool(TRUE), pos)
      [] tag = TAG_FALSE -> LOk(PyBool(FALSE), pos)
      [] tag = TAG_EMPTY_TUPLE -> LOk(PyTuple(<<>>), pos)
      [] tag = TAG_EMPTY_STR -> LOk(PyBytes(<<>>), pos)
      [] tag = TAG_LONG -> _load_long(d, pos)
      [] tag = TAG_FLOAT -> _load_float(d, pos)
      [] tag = TAG_COMPLEX -> _load_complex(d, pos)
      [] tag = TAG_STR1 -> read_str(d, pos, 1)
      [] tag = TAG_STR2 -> read_str(d, pos, 2)
      [] tag = TAG_STR3 -> read_str(d, pos, 3)
      [] tag = TAG_STR4 -> read_str(d, pos, 4)
      [] tag = TAG_STR_L1 -> _load_str_l1(d, pos)
      [] tag = TAG_STR_L4 -> _load_str_l4(d, pos)
      [] tag = TAG_UNICODE -> _load_unicode(d, pos)
      [] tag = TAG_TUP1 -> _load_tupn(d, pos, 1)
      [] tag = TAG_TUP2 -> _load_tupn(d, pos, 2)
      [] tag = TAG_TUP3 -> _load_tupn(d, pos, 3)
      [] tag = TAG_TUP4 -> _load_tupn(d, pos, 4)
      [] tag = TAG_TUP_L1 -> _load_tup_l1(d, pos)
      [] tag = TAG_TUP_L4 -> _load_tup_l4(d, pos)
      [] tag = TAG_SLICE -> _load_slice(d, pos)
      [] tag = TAG_FSET -> _load_frozenset(d, pos)
      [] tag = TAG_INT_L1 -> _load_int_l1(d, pos)
      [] tag = TAG_INT_L4 -> _load_int_l4(d, pos)

\* tag = stream.read(1); an immediate integer, else the registered handler;
\* _load_registry.get(tag) is None for any other tag, the empty read at the
\* end of the buffer included, and calling None raises TypeError
_load(d, pos) ==
    LET tag == stream_read(d, pos, 1)
        after == stream_tell(d, pos, 1)
    IN IF tag # <<>> /\ tag[1] \in DOMAIN IMM_INTS_LOADER
       THEN LOk(PyInt(IMM_INTS_LOADER[tag[1]]), after)
       ELSE IF tag # <<>> /\ tag[1] \in load_registry_tags
       THEN load_handler(tag[1], d, after)
       ELSE LRaise("TypeError")

\* load(data): the value _load returns; bytes after it are left unread
load(d) ==
    LET r == _load(d, 0)
    IN IF r.err # "ok" THEN Raise(r.err) ELSE Ok(r.v)

(***************************************************************************)
(* The values and buffers the codec is exercised on                        *)
(***************************************************************************)
\* longest tuple / frozenset built from Elems
MaxTupleLen == 2

\* longest hand-made buffer
MaxRawLen == 3

\* a sequence of n copies of x
Repeat(x, n) == [i \in 1..n |-> x]

\* 18.2, 13.0 and 0.0 as little-endian doubles
F18_2 == <<51, 51, 51, 51, 51, 51, 50, 64>>
F13_0 == <<0, 0, 0, 0, 0, 0, 42, 64>>
F0_0 == <<0, 0, 0, 0, 0, 0, 0, 0>>

\* lengths around the 8-bit / 32-bit length-field crossover
LongLens == {255, 256}

Scalars ==
    {PyNone, PyNotImplemented, PyEllipsis, PyBool(TRUE), PyBool(FALSE)}
    \cup {PyInt(i) : i \in {0 - 1000, 0 - 49, 0 - 48, 0, 7, 8, 159, 160, 900}}
    \cup {PyFloat(F18_2), PyFloat(F0_0), PyComplex(F13_0, F18_2)}
    \cup {PyBytes(<<>>), PyBytes(<<97>>), PyBytes(<<104, 101>>),
          PyBytes(<<97, 98, 99>>), PyBytes(<<97, 98, 99, 100>>),
          PyBytes(<<104, 101, 108, 108, 111>>), PyBytes(<<255>>),
          PyBytes(<<49, 50>>)}
    \cup {PyBytes(Repeat(120, n)) : n \in LongLens}
    \cup {PyStr(<<>>), PyStr(<<97>>), PyStr(<<108, 108, 111>>), PyStr(<<233>>),
          PyStr(<<8364>>), PyStr(<<128512>>), PyStr(<<55296>>)}

\* values of a kind brine does not support
Unsupported == {PyList(<<>>), PyList(<<PyInt(7)>>)}

\* the elements composite values are built from
Elems == {PyNone, PyInt(7), PyInt(900), PyBytes(<<104, 101>>), PyStr(<<97>>),
          PyList(<<>>)}

TuplesOver(S, n) == UNION {{PyTuple(t) : t \in [1..m -> S]} : m \in 0..n}

SetsOver(S, n) == {PyFrozenset(T) : T \in {U \in SUBSET S : Cardinality(U) <= n}}

SlicesOver(S) == {PySlice(a, b, c) : a \in S, b \in S, c \in S}

Composites1 ==
    TuplesOver(Elems, MaxTupleLen)
    \cup SetsOver({e \in Elems : e.k # "list"}, MaxTupleLen)
    \cup SlicesOver({PyNone, PyInt(7), PyList(<<>>)})

\* tuples of three and four items, and tuples around the 8-bit / 32-bit
\* count-field crossover
LongTuples ==
    {PyTuple(Repeat(PyInt(7), n)) : n \in {3, 4} \cup LongLens}
    \cup {PyTuple(<<PyInt(1), PyInt(2), PyInt(3), PyInt(4), PyInt(900)>>)}

\* one more level of nesting
Composites2 ==
    {PyTuple(<<c>>) : c \in Composites1}
    \cup {PyTuple(<<PyInt(8), c>>) : c \in Composites1}
    \cup {PyFrozenset({c}) : c \in {x \in Composites1 : x.k # "slice" /\ hashable(x)}}
    \cup {PySlice(c, PyNone, PyNone) : c \in Composites1}

Values == Scalars \cup Unsupported \cup Composites1 \cup LongTuples \cup Composites2

\* the bytes hand-made buffers are made of: defined tags, the undefined
\* bytes 0x07 and 0xf0, a count, and the first, the last and one more of
\* the immediate integers
RawBytes == {TAG_NONE, 7, TAG_UNICODE, TAG_STR_L1, TAG_TUP1, TAG_INT_L1,
             TAG_SLICE, TAG_FSET, 2, 32, 49, 239, 240}

RawBuffers == UNION {[1..n -> RawBytes] : n \in 0..MaxRawLen}

(***************************************************************************)
(* SocketStream (stream.py 83-259): state                                  *)
(*                                                                         *)
(* Bytes that cross the transport are named by their position in the       *)
(* sequence they come from: a run [lo, hi) stands for the bytes at         *)
(* positions lo .. hi-1, and a byte string is a sequence of runs.          *)
(***************************************************************************)
MAX_IO_CHUNK == 64000

\* most socket calls (recv or send) that return within one read or write
MaxChunks == 4

Run(lo, hi) == [lo |-> lo, hi |-> hi]

RunLen(r) == r.hi - r.lo

\* the byte string `bytes` followed by the run r
AppendRun(bytes, r) ==
    IF r.lo = r.hi THEN bytes
    ELSE IF bytes # <<>> /\ bytes[Len(bytes)].hi = r.lo
    THEN [bytes EXCEPT ![Len(bytes)] = Run(bytes[Len(bytes)].lo, r.hi)]
    ELSE Append(bytes, r)

RECURSIVE join(_)
\* BYTES_LITERAL("").join(data)
join(chunks) ==
    IF chunks = <<>> THEN <<>>
    ELSE AppendRun(join(SubSeq(chunks, 1, Len(chunks) - 1)), chunks[Len(chunks)])

\* an exception: its class, its errno, and the class (or the message) and
\* the errno of its argument
Exc(cls, errno) == [cls |-> cls, errno |-> errno, ccls |-> "none", cerrno |-> "none"]

NoExc == Exc("none", "none")

\* EOFError(ex)
EOFErrorOf(ex) == [cls |-> "EOFError", errno |-> "none", ccls |-> ex.cls, cerrno |-> ex.errno]

\* ClosedFile.__getattr__ / ClosedFile.fileno: EOFError("stream has been closed")
ClosedFileError == Exc("EOFError", "none")

\* rpyc.external.socket: error = Exception, timeout = Exception
socket_error == "Exception"
socket_timeout == "Exception"

\* errno.EAGAIN, errno.EWOULDBLOCK
retry_errnos == {"EAGAIN", "EWOULDBLOCK"}

\* isinstance(ex, cls) for the classes that occur: TimeoutError is an
\* OSError, and every one of them is an Exception
IsInstance(ex, cls) ==
    \/ cls = "Exception"
    \/ ex.cls = cls
    \/ cls = "OSError" /\ ex.cls = "TimeoutError"

\* rpyc.lib.compat.get_exc_errno
get_exc_errno(ex) == ex.errno

\* what a socket call on a live endpoint may raise: a timeout, the two
\* transient errnos, a fatal errno
TransportErrors ==
    {Exc("TimeoutError", "none"), Exc("OSError", "EAGAIN"),
     Exc("OSError", "EWOULDBLOCK"), Exc("OSError", "ECONNRESET")}

\* what the recv / send (op) in progress may raise; call.on is the object it
\* was called on.  EOFError from the ClosedFile sentinel, EPIPE from a send
\* after shutdown (a recv returns b"" then), EBADF from a socket object that
\* was closed without a shutdown, else a transport error
SocketCallErrors(op) ==
    IF call.on = "ClosedFile" THEN {ClosedFileError}
    ELSE IF endpoint.shut
    THEN IF op = "send" THEN {Exc("OSError", "EPIPE")} ELSE {}
    ELSE IF endpoint.closed THEN {Exc("OSError", "EBADF")}
    ELSE TransportErrors

\* no call in progress
IdleCall ==
    [op |-> "idle", pc |-> "none", n |-> 0, count |-> 0, buf |-> Run(0, 0),
     data |-> <<>>, io |-> 0, chunk |-> 0, on |-> "none", last |-> "none", caught |-> NoExc,
     raising |-> NoExc,
     was_closed |-> FALSE]

NoRet ==
    [op |-> "none", outcome |-> "none", exc |-> NoExc, val |-> <<>>, n |-> 0,
     was_closed |-> FALSE, io |-> 0, last |-> "none"]

\* the second context has not called close(); blocked records whether the
\* first context was still inside recv / send when that close() returned
CloserIdle == [pc |-> "idle", blocked |-> FALSE]

\* SocketStream.__init__(sock) on a connected endpoint
StreamStart ==
    /\ sock = "socket" /\ endpoint = [shut |-> FALSE, closed |-> FALSE]
    /\ rpos = 0 /\ accepted = <<>> /\ call = IdleCall
    /\ ret = NoRet /\ hist = [closed |-> FALSE]
    /\ closer = CloserIdle

\* socket_backoff_connect has not been called: its locals (sock is the
\* number of the endpoint it holds), and, in log, what it has done to the
\* endpoints and the clock
ConnIdle ==
    [pc |-> "idle", attempts |-> 0, collision |-> 0, sock |-> 0, opened |-> 0,
     exc |-> NoExc, log |-> <<>>, nodelay |-> FALSE, keepalive |-> 0]

ConnStart == conn = ConnIdle

\* the codec is not exercised
BrineStart ==
    /\ obj = PyNone /\ origin = "unused" /\ data = <<>>
    /\ dres = Raise("unset") /\ able = "unset" /\ lres = Raise("unset")

(***************************************************************************)
(* The codec experiment: dump and dumpable applied to a value, load        *)
(* applied to the dump, to a proper prefix of it, or to a hand-made buffer *)
(***************************************************************************)
Unset == Raise("unset")

InitBrine ==
    /\ \/ obj \in Values /\ origin = "value" /\ data = <<>>
       \/ obj = PyNone /\ origin = "raw" /\ data \in RawBuffers
    /\ dres = Unset /\ able = "unset" /\ lres = Unset
    /\ StreamStart /\ ConnStart

\* y = dump(obj)
Dump ==
    /\ origin = "value" /\ dres = Unset
    /\ dres' = dump(obj)
    /\ IF dres'.err = "ok"
       THEN data' = dres'.v /\ origin' = "dump"
       ELSE UNCHANGED <<data, origin>>
    /\ UNCHANGED <<obj, able, lres>>
    /\ UNCHANGED <<svars, cvars>>

\* dumpable(obj)
Dumpable ==
    /\ origin \in {"value", "dump"} /\ able = "unset"
    /\ able' = IF dumpable(obj) THEN "True" ELSE "False"
    /\ UNCHANGED <<obj, origin, data, dres, lres>>
    /\ UNCHANGED <<svars, cvars>>

\* the peer's bytes are cut off after the first n
Cut ==
    /\ origin = "dump" /\ lres = Unset
    /\ \E n \in 0..(Len(data) - 1) : data' = SubSeq(data, 1, n)
    /\ origin' = "cut"
    /\ UNCHANGED <<obj, dres, able, lres>>
    /\ UNCHANGED <<svars, cvars>>

\* z = load(data)
Load ==
    /\ origin \in {"dump", "cut", "raw"} /\ lres = Unset
    /\ lres' = load(data)
    /\ UNCHANGED <<obj, origin, data, dres, able>>
    /\ UNCHANGED <<svars, cvars>>

NextBrine == Dump \/ Dumpable \/ Cut \/ Load

SpecBrine == InitBrine /\ [][NextBrine]_vars

(***************************************************************************)
(* Claims about the codec                                                  *)
(***************************************************************************)
RECURSIVE Representable(_)
\* a value of a supported kind, nested only from supported kinds, whose
\* text is encodable Unicode
Representable(o) ==
    CASE o.k = "tuple" -> \A i \in 1..Len(o.v) : Representable(o.v[i])
      [] o.k = "frozenset" -> \A x \in o.v : Representable(x)
      [] o.k = "slice" -> \A i \in 1..3 : Representable(o.v[i])
      [] o.k = "str" -> \A i \in 1..Len(o.v) : ~IsSurrogate(o.v[i])
      [] OTHER -> o.k \in simple_types

\* C1: for every representable value v, load(dump(v)) succeeds and returns
\* a value equal to v and of the same kind (bytes stay bytes, text stays
\* text), frozensets being compared as sets.
C1_RoundTrip ==
    (origin = "dump" /\ lres # Unset /\ Representable(obj))
        => (lres.err = "ok" /\ lres.v = obj)

\* bytes of tag and length field before the payload of the form `tag`
HeaderLen(tag) ==
    IF tag \in {TAG_STR_L1, TAG_INT_L1, TAG_TUP_L1} THEN 2
    ELSE IF tag \in {TAG_STR_L4, TAG_INT_L4, TAG_TUP_L4} THEN 5
    ELSE 1

\* `data` is a dump of a byte-string, integer, float, complex or tuple cut
\* short after its tag and length field: the tag declares more payload (or
\* more elements) than remains
DeclaresMoreThanRemains ==
    /\ origin = "cut"
    /\ obj.k \in {"bytes", "int", "float", "complex", "tuple"}
    /\ Representable(obj)
    /\ data # <<>>
    /\ Len(data) >= HeaderLen(data[1])

\* C2: when a tag declares more payload than remains in the buffer, load
\* fails; it never returns a value built from fewer bytes or fewer elements
\* than declared.  (Any exception counts as the failure here; the kind of
\* the exception is the subject of C3.)
C2_TruncatedFails ==
    (DeclaresMoreThanRemains /\ lres # Unset) => lres.err # "ok"

\* the byte b is neither a registered tag nor an immediate integer
UndefinedTag(b) == b \notin load_registry_tags /\ b \notin DOMAIN IMM_INTS_LOADER

\* the buffer is empty or opens with an undefined tag, at the top level or
\* right inside a tuple, set, slice or text value
NoValidTag ==
    /\ origin \in {"raw", "cut"}
    /\ \/ data = <<>>
       \/ UndefinedTag(data[1])
       \/ /\ data[1] \in {TAG_TUP1, TAG_SLICE, TAG_FSET, TAG_UNICODE}
          /\ (Len(data) = 1 \/ UndefinedTag(data[2]))

\* C3: load of an empty buffer, or of a buffer whose next tag byte is
\* undefined, fails with the dedicated malformed-data error, at the top
\* level and inside a tuple, set, slice or text value.
C3_MalformedDataError ==
    (NoValidTag /\ lres # Unset) => lres.err = "MalformedDataError"

\* C4: dumpable(v) returns True exactly when dump(v) succeeds; where it
\* returns False, dump fails with the unsupported-type error (TypeError).
C4_DumpableIffDumps ==
    (able # "unset" /\ dres # Unset)
        => /\ (able = "True") <=> (dres.err = "ok")
           /\ (able = "False") => (dres.err = "TypeError")

(***************************************************************************)
(* SocketStream (stream.py 106-259): operations.  One call runs at a time; *)
(* each action is one step of it, up to and including its next socket call *)
(***************************************************************************)
ReadCounts == {0, 1, 2, 3, MAX_IO_CHUNK, MAX_IO_CHUNK + 1, 2 * MAX_IO_CHUNK + 1}

WriteLens == {0, 1, 2, 3, MAX_IO_CHUNK, MAX_IO_CHUNK + 1, 2 * MAX_IO_CHUNK + 1}

\* how many bytes a recv asked for n may deliver
FragSizes(n) == {k \in {1, n \div 2, n - 1, n} : k >= 1}

\* how many bytes a send given n may accept
SendCounts(n) == {0, 1, n \div 2, n}

\* self.closed
closed == sock = "ClosedFile"

\* recv is asked for a whole chunk whatever is left to read
recv_size_whole_chunk(count) == MAX_IO_CHUNK

\* min(self.MAX_IO_CHUNK, count)
recv_size(count) == Min(MAX_IO_CHUNK, count)

\* data[:self.MAX_IO_CHUNK]
first_chunk(buf) == Run(buf.lo, Min(buf.hi, buf.lo + MAX_IO_CHUNK))

\* one byte more than was sent is taken off the data
rest_after_one_more(buf, count) == Run(Min(buf.hi, buf.lo + count + 1), buf.hi)

\* data[count:]
rest_after(buf, count) == Run(Min(buf.hi, buf.lo + count), buf.hi)

\* the call returns val
Return(val) ==
    /\ ret' = [op |-> call.op, outcome |-> "return", exc |-> NoExc, val |-> val,
               n |-> call.n, was_closed |-> call.was_closed, io |-> call.io,
               last |-> call.last]
    /\ call' = IdleCall

\* the call ends by raising ex
RaiseOut(ex) ==
    /\ ret' = [op |-> call.op, outcome |-> "raise", exc |-> ex, val |-> <<>>,
               n |-> call.n, was_closed |-> call.was_closed, io |-> call.io,
               last |-> call.last]
    /\ call' = IdleCall

\* a new call starts
Begin(op, n) ==
    /\ call.op = "idle"
    /\ call' = [IdleCall EXCEPT !.op = op, !.pc = "loop", !.n = n, !.count = n,
                                !.buf = Run(0, n), !.was_closed = closed]
    /\ rpos' = 0 /\ accepted' = <<>> /\ ret' = NoRet
    /\ UNCHANGED <<sock, endpoint, hist>>

\* self.close(), then raise ex
CloseThenRaise(ex, raising) ==
    call' = [call EXCEPT !.pc = "close1", !.last = "exc", !.caught = ex,
                         !.raising = raising]

\* except ...: continue
Continue(ex) ==
    call' = [call EXCEPT !.pc = "loop", !.last = "exc", !.caught = ex]

\* ---- read(count)
CallRead ==
    /\ \E c \in ReadCounts : Begin("read", c)
    /\ UNCHANGED <<bvars, cvars, closer>>

\* while count > 0: ... ; return BYTES_LITERAL("").join(data)
ReadLoop ==
    /\ call.op = "read" /\ call.pc = "loop"
    /\ IF call.count > 0
       THEN call' = [call EXCEPT !.pc = "recv", !.on = sock] /\ UNCHANGED ret
       ELSE Return(join(call.data))
    /\ UNCHANGED <<sock, endpoint, rpos, accepted, hist>>
    /\ UNCHANGED <<bvars, cvars, closer>>

\* buf = self.sock.recv(...) delivers k bytes; data.append(buf); count -= len(buf)
ReadRecvData ==
    /\ call.op = "read" /\ call.pc = "recv" /\ call.on = "socket"
    /\ ~endpoint.shut /\ ~endpoint.closed
    /\ call.io < MaxChunks
    /\ \E k \in FragSizes(recv_size(call.count)) :
          /\ call' = [call EXCEPT !.pc = "loop",
                                  !.data = Append(@, Run(rpos, rpos + k)),
                                  !.count = @ - k, !.io = @ + 1,
                                  !.last = "data", !.caught = NoExc]
          /\ rpos' = rpos + k
    /\ UNCHANGED <<sock, endpoint, accepted, ret, hist>>
    /\ UNCHANGED <<bvars, cvars, closer>>

\* recv returns b"": self.close(); raise EOFError("connection closed by peer")
ReadRecvEof ==
    /\ call.op = "read" /\ call.pc = "recv" /\ call.on = "socket"
    /\ endpoint.shut \/ ~endpoint.closed
    /\ call' = [call EXCEPT !.pc = "close1", !.last = "eof", !.caught = NoExc,
                            !.raising = EOFErrorOf(Exc("connection closed by peer", "none"))]
    /\ UNCHANGED <<sock, endpoint, rpos, accepted, ret, hist>>
    /\ UNCHANGED <<bvars, cvars, closer>>

\* recv raises: except socket.timeout: continue / except socket.error: ...
ReadRecvRaise ==
    /\ call.op = "read" /\ call.pc = "recv"
    /\ \E ex \in SocketCallErrors("recv") :
          IF IsInstance(ex, socket_timeout)
          THEN Continue(ex) /\ UNCHANGED ret
          ELSE IF IsInstance(ex, socket_error)
          THEN IF get_exc_errno(ex) \in retry_errnos
               THEN Continue(ex) /\ UNCHANGED ret
               ELSE CloseThenRaise(ex, EOFErrorOf(ex)) /\ UNCHANGED ret
          ELSE RaiseOut(ex)
    /\ UNCHANGED <<sock, endpoint, rpos, accepted, hist>>
    /\ UNCHANGED <<bvars, cvars, closer>>

\* ---- write(data)
CallWrite ==
    /\ \E n \in WriteLens : Begin("write", n)
    /\ UNCHANGED <<bvars, cvars, closer>>

\* while data: ...
WriteLoop ==
    /\ call.op = "write" /\ call.pc = "loop"
    /\ IF call.buf.lo < call.buf.hi
       THEN call' = [call EXCEPT !.pc = "send", !.on = sock] /\ UNCHANGED ret
       ELSE Return(<<>>)
    /\ UNCHANGED <<sock, endpoint, rpos, accepted, hist>>
    /\ UNCHANGED <<bvars, cvars, closer>>

\* count = self.sock.send(data[:self.MAX_IO_CHUNK]); data = data[count:]
WriteSend ==
    /\ call.op = "write" /\ call.pc = "send" /\ call.on = "socket"
    /\ ~endpoint.shut /\ ~endpoint.closed
    /\ call.io < MaxChunks
    /\ LET chunk == first_chunk(call.buf)
       IN \E count \in SendCounts(RunLen(chunk)) :
             /\ accepted' = AppendRun(accepted, Run(chunk.lo, chunk.lo + count))
             /\ call' = [call EXCEPT !.pc = "loop", !.chunk = RunLen(chunk),
                                     !.buf = rest_after(@, count), !.io = @ + 1,
                                     !.last = "data", !.caught = NoExc]
    /\ UNCHANGED <<sock, endpoint, rpos, ret, hist>>
    /\ UNCHANGED <<bvars, cvars, closer>>

\* send raises: except socket.error: self.close(); raise EOFError(ex)
WriteSendRaise ==
    /\ call.op = "write" /\ call.pc = "send"
    /\ \E ex \in SocketCallErrors("send") :
          IF IsInstance(ex, socket_error)
          THEN /\ call' = [call EXCEPT !.pc = "close1", !.last = "exc",
                                       !.caught = ex, !.raising = EOFErrorOf(ex),
                                       !.chunk = RunLen(first_chunk(call.buf))]
               /\ UNCHANGED ret
          ELSE RaiseOut(ex)
    /\ UNCHANGED <<sock, endpoint, rpos, accepted, hist>>
    /\ UNCHANGED <<bvars, cvars, closer>>

\* ---- close(), called by the user or by read / write / fileno
CallClose ==
    /\ Begin("close", 0)
    /\ UNCHANGED <<bvars, cvars, closer>>

\* the call enters close()
CloseEnter ==
    /\ call.op = "close" /\ call.pc = "loop"
    /\ call' = [call EXCEPT !.pc = "close1"]
    /\ UNCHANGED <<sock, endpoint, rpos, accepted, ret, hist>>
    /\ UNCHANGED <<bvars, cvars, closer>>

\* if not self.closed: try: self.sock.shutdown(SHUT_RDWR) except Exception: pass
CloseShutdown ==
    /\ call.pc = "close1"
    /\ IF closed \/ endpoint.closed THEN UNCHANGED endpoint
       ELSE \E done \in BOOLEAN :
               endpoint' = [endpoint EXCEPT !.shut = @ \/ done]
    /\ call' = [call EXCEPT !.pc = "close2"]
    /\ UNCHANGED <<sock, rpos, accepted, ret, hist>>
    /\ UNCHANGED <<bvars, cvars, closer>>

\* self.sock.close()  (ClosedFile.close does nothing)
CloseSock ==
    /\ call.pc = "close2"
    /\ endpoint' = IF closed THEN endpoint ELSE [endpoint EXCEPT !.closed = TRUE]
    /\ call' = [call EXCEPT !.pc = "close3"]
    /\ UNCHANGED <<sock, rpos, accepted, ret, hist>>
    /\ UNCHANGED <<bvars, cvars, closer>>

\* self.sock = ClosedFile; close() returns, and its caller goes on
CloseAssign ==
    /\ call.pc = "close3"
    /\ sock' = "ClosedFile"
    /\ IF call.op = "close"
       THEN Return(<<>>) /\ hist' = [hist EXCEPT !.closed = TRUE]
       ELSE RaiseOut(call.raising) /\ UNCHANGED hist
    /\ UNCHANGED <<endpoint, rpos, accepted>>
    /\ UNCHANGED <<bvars, cvars, closer>>

\* ---- fileno(), called by the user or by poll
CallFileno ==
    /\ Begin("fileno", 0)
    /\ UNCHANGED <<bvars, cvars, closer>>

\* return self.sock.fileno()
FilenoOk ==
    /\ call.op \in {"fileno", "poll"} /\ call.pc = "loop" /\ ~closed
    /\ IF call.op = "poll"
       THEN call' = [call EXCEPT !.pc = "wait"] /\ UNCHANGED ret
       ELSE Return(<<>>)
    /\ UNCHANGED <<sock, endpoint, rpos, accepted, hist>>
    /\ UNCHANGED <<bvars, cvars, closer>>

\* self.sock.fileno() raises: except socket.error: self.close(); then
\* raise EOFError() for EBADF, else re-raise
FilenoRaise ==
    /\ call.op \in {"fileno", "poll"} /\ call.pc = "loop"
    /\ \E ex \in (IF closed THEN {ClosedFileError}
                  ELSE {Exc("OSError", "EBADF"), Exc("OSError", "ENOTSOCK")}) :
          IF IsInstance(ex, socket_error)
          THEN /\ CloseThenRaise(ex, IF get_exc_errno(ex) = "EBADF"
                                     THEN Exc("EOFError", "none") ELSE ex)
               /\ UNCHANGED ret
          ELSE RaiseOut(ex)
    /\ UNCHANGED <<sock, endpoint, rpos, accepted, hist>>
    /\ UNCHANGED <<bvars, cvars, closer>>

\* ---- poll(timeout)
CallPoll ==
    /\ Begin("poll", 0)
    /\ UNCHANGED <<bvars, cvars, closer>>

\* rl = p.poll(timeout.timeleft()); return bool(rl)
PollReturn ==
    /\ call.op = "poll" /\ call.pc = "wait"
    /\ Return(<<>>)
    /\ UNCHANGED <<sock, endpoint, rpos, accepted, hist>>
    /\ UNCHANGED <<bvars, cvars, closer>>

\* p.poll raises select_error: EINTR is retried, anything else is raised
PollRaise ==
    /\ call.op = "poll" /\ call.pc = "wait"
    /\ \E ex \in {Exc("select_error", "EINTR"), Exc("select_error", "EBADF")} :
          IF ex.errno = "EINTR"
          THEN call' = [call EXCEPT !.last = "exc", !.caught = ex] /\ UNCHANGED ret
          ELSE RaiseOut(ex)
    /\ UNCHANGED <<sock, endpoint, rpos, accepted, hist>>
    /\ UNCHANGED <<bvars, cvars, closer>>

InitStream == BrineStart /\ StreamStart /\ ConnStart

NextStream ==
    \/ CallRead \/ ReadLoop \/ ReadRecvData \/ ReadRecvEof \/ ReadRecvRaise
    \/ CallWrite \/ WriteLoop \/ WriteSend \/ WriteSendRaise
    \/ CallClose \/ CloseEnter \/ CloseShutdown \/ CloseSock \/ CloseAssign
    \/ CallFileno \/ FilenoOk \/ FilenoRaise
    \/ CallPoll \/ PollReturn \/ PollRaise

SpecStream == InitStream /\ [][NextStream]_vars

(***************************************************************************)
(* SocketStream: properties                                                *)
(***************************************************************************)
\* the first n bytes the transport delivers, or the first n bytes of the
\* data written, as a byte string
FirstBytes(n) == IF n = 0 THEN <<>> ELSE <<Run(0, n)>>

\* C5: read(count) on an open stream ends either by returning exactly the
\* next count bytes the transport delivered, in delivery order, however they
\* were fragmented, or by raising EOFError; and a recv that returns no bytes
\* makes it raise EOFError, not return what it had gathered
C5_ReadExact ==
    /\ ret.op = "read" /\ ~ret.was_closed =>
          \/ ret.outcome = "return" /\ ret.val = FirstBytes(ret.n)
          \/ ret.outcome = "raise" /\ ret.exc.cls = "EOFError"
    /\ ret.op = "read" /\ ret.last = "eof" =>
          ret.outcome = "raise" /\ ret.exc.cls = "EOFError"
    /\ call.op = "read" /\ call.pc \in {"loop", "recv"} =>
          join(call.data) = FirstBytes(rpos) /\ call.count = call.n - rpos

\* C5 witness: read(3) returned after three recvs of one byte each
C5_Witness ==
    /\ ret.op = "read" /\ ret.outcome = "return" /\ ~ret.was_closed
    /\ ret.n = 3 /\ ret.io = 3 /\ ret.val = <<Run(0, 3)>>

\* C6: once close() has been called the stream stays closed, a further
\* close() returns, and every later read, write, poll and fileno call raises
C6_ClosedIsFinal ==
    hist.closed =>
       /\ closed
       /\ ret.op = "close" => ret.outcome = "return"
       /\ ret.op \in {"read", "write", "poll", "fileno"} => ret.outcome = "raise"

\* C7: in read and write a socket call's EAGAIN / EWOULDBLOCK is retried,
\* neither surfaced nor closing the stream, and any other transport error
\* closes the stream and is surfaced as EOFError
C7_TransientRetried ==
    /\ ret.op \in {"read", "write"} /\ ret.outcome = "raise" =>
          ret.exc.cerrno \notin retry_errnos
    /\ call.op \in {"read", "write"} /\ call.pc \in {"close1", "close2", "close3"} =>
          call.caught.errno \notin retry_errnos
    /\ call.op \in {"read", "write"} /\ call.pc = "loop" /\ call.caught.cls = "OSError" =>
          call.caught.errno \in retry_errnos

\* the number of bytes the transport has accepted from this write
AcceptedLen == IF accepted = <<>> THEN 0 ELSE accepted[Len(accepted)].hi

\* C8: write hands at most MAX_IO_CHUNK bytes to each send; the bytes the
\* transport accepted are a prefix of data, in order, none dropped or
\* duplicated: all of data when write returns, a proper prefix only when it
\* raises EOFError and leaves the stream closed
C8_WritePrefix ==
    /\ call.op = "write" => call.chunk <= MAX_IO_CHUNK
    /\ call.op = "write" \/ ret.op = "write" =>
          /\ accepted = FirstBytes(AcceptedLen)
          /\ AcceptedLen <= (IF call.op = "write" THEN call.n ELSE ret.n)
    /\ ret.op = "write" /\ ret.outcome = "return" => accepted = FirstBytes(ret.n)
    /\ ret.op = "write" /\ AcceptedLen < ret.n =>
          ret.outcome = "raise" /\ ret.exc.cls = "EOFError" /\ closed

\* C8 witness: a write of two chunks and a byte returned after four sends,
\* one of which the transport took only in part
C8_Witness ==
    /\ ret.op = "write" /\ ret.outcome = "return"
    /\ ret.n = 2 * MAX_IO_CHUNK + 1 /\ ret.io = 4
    /\ accepted = <<Run(0, 2 * MAX_IO_CHUNK + 1)>>

(***************************************************************************)
(* socket_backoff_connect (lib/__init__.py 64-95)                          *)
(***************************************************************************)
\* the largest `attempts` a caller passes
MaxAttempts == 3

AttemptChoices == (0 - 1) .. MaxAttempts

\* what sock.connect may raise
ConnectErrors == {Exc("TimeoutError", "ETIMEDOUT"), Exc("OSError", "ECONNREFUSED")}

\* one thing done to an endpoint or the clock: ev is "open", "connect",
\* "close" or "sleep"; id the endpoint; res the outcome of a connect; k the
\* length of a sleep in units of 0.0000512 s
Event(ev, id, res, k) == [ev |-> ev, id |-> id, res |-> res, k |-> k]

\* the exponent is not capped: n = collision
backoff_supremum_uncapped(collision) ==
    2 ^ collision - (IF collision > 3 THEN 1 ELSE 0)

\* the upper end of the range exp_backoff draws from
backoff_supremum(collision) ==
    LET n == Min(collision, 10)
        supremum_adjustment == IF n > 3 THEN 1 ELSE 0
    IN  2 ^ n - supremum_adjustment

\* k = random.uniform(0, 2**n - supremum_adjustment), at the whole values of
\* k; the delay returned is k * 0.0000512 s
exp_backoff(collision) == 0 .. backoff_supremum(collision)

\* the timeout is re-raised whatever the number of attempts so far
give_up_only_at_ceiling(collision, attempts) == collision = attempts

\* if collision == attempts or attempts < 1: raise
give_up(collision, attempts) == collision = attempts \/ attempts < 1

\* sock = socket.socket(family, socktype, proto); collision = 0
CallConnect ==
    /\ conn.pc \in {"idle", "returned", "raised"}
    /\ \E a \in AttemptChoices :
          conn' = [ConnIdle EXCEPT !.pc = "loop", !.attempts = a, !.sock = 1,
                                   !.opened = 1,
                                   !.log = <<Event("open", 1, "none", 0)>>]
    /\ UNCHANGED <<bvars, svars>>

\* collision += 1; sock.settimeout(timeout); sock.connect(addr) returns;
\* connecting = False; return sock
ConnectOk ==
    /\ conn.pc = "loop"
    /\ conn' = [conn EXCEPT !.pc = "returned", !.collision = @ + 1,
                            !.log = Append(@, Event("connect", conn.sock, "ok", 0))]
    /\ UNCHANGED <<bvars, svars>>

\* collision += 1; sock.connect(addr) raises; except socket.timeout: ...
ConnectFail ==
    /\ conn.pc = "loop"
    /\ \E ex \in ConnectErrors :
          LET collision == conn.collision + 1
              log == Append(conn.log, Event("connect", conn.sock, ex.cls, 0))
          IN  IF IsInstance(ex, socket_timeout)
              THEN IF give_up(collision, conn.attempts)
                   THEN conn' = [conn EXCEPT !.pc = "raised", !.collision = collision,
                                             !.exc = ex, !.log = log]
                   ELSE conn' = [conn EXCEPT !.pc = "backoff", !.collision = collision,
                                             !.log = log]
              ELSE conn' = [conn EXCEPT !.pc = "raised", !.collision = collision,
                                        !.exc = ex, !.log = log]
    /\ UNCHANGED <<bvars, svars>>

\* sock.close(); sock = socket.socket(...); time.sleep(exp_backoff(collision))
Backoff ==
    /\ conn.pc = "backoff"
    /\ \E k \in exp_backoff(conn.collision) :
          conn' = [conn EXCEPT !.pc = "loop", !.sock = conn.opened + 1,
                               !.opened = @ + 1,
                               !.log = @ \o <<Event("close", conn.sock, "none", 0),
                                              Event("open", conn.opened + 1, "none", 0),
                                              Event("sleep", 0, "none", k)>>]
    /\ UNCHANGED <<bvars, svars>>

InitConnect == BrineStart /\ StreamStart /\ ConnStart

NextConnect == CallConnect \/ ConnectOk \/ ConnectFail \/ Backoff

SpecConnect == InitConnect /\ [][NextConnect]_vars

(***************************************************************************)
(* socket_backoff_connect: properties                                      *)
(***************************************************************************)
\* the connect attempts of the call so far, in order
Attempts == SelectSeq(conn.log, LAMBDA e : e.ev = "connect")

\* the positions of the connect attempts in the log
AttemptAt == {i \in 1 .. Len(conn.log) : conn.log[i].ev = "connect"}

\* the attempt at position i of the log follows a timed-out attempt, a close
\* of that attempt's endpoint, the opening of a fresh endpoint, which it uses,
\* and a backoff sleep
RetriedProperly(i) ==
    /\ i > 4
    /\ conn.log[i - 4].ev = "connect" /\ conn.log[i - 4].res = "TimeoutError"
    /\ conn.log[i - 3].ev = "close" /\ conn.log[i - 3].id = conn.log[i - 4].id
    /\ conn.log[i - 2].ev = "open" /\ conn.log[i - 2].id = conn.log[i].id
    /\ \A j \in 1 .. (i - 3) : conn.log[j].id # conn.log[i].id
    /\ conn.log[i - 1].ev = "sleep"

\* C9: with attempts >= 1 a call makes at most `attempts` attempts, counted
\* from 1; a further attempt follows only a timed-out attempt, on a fresh
\* endpoint and after a backoff sleep; the timeout is surfaced exactly when
\* the attempts-th attempt times out; any other connect error is surfaced at
\* once, with no further attempt
C9_BoundedRetry ==
    conn.attempts >= 1 /\ conn.pc # "idle" =>
       /\ Len(Attempts) <= conn.attempts /\ conn.collision = Len(Attempts)
       /\ \A i \in AttemptAt : i = 2 \/ RetriedProperly(i)
       /\ (conn.pc = "raised" /\ conn.exc.cls = "TimeoutError") <=>
             /\ Len(Attempts) = conn.attempts
             /\ Attempts[Len(Attempts)].res = "TimeoutError"
       /\ \A i \in AttemptAt :
             conn.log[i].res = "OSError" =>
                i = Len(conn.log) /\ conn.pc = "raised" /\ conn.exc.cls = "OSError"

CloserCall ==
    /\ closer.pc = "idle"
    /\ call.op \in {"read", "write"} /\ call.pc \in {"recv", "send"}
    /\ closer' = [closer EXCEPT !.pc = "close1"]
    /\ UNCHANGED <<sock, endpoint, rpos, accepted, call, ret, hist>>
    /\ UNCHANGED <<bvars, cvars>>

\* if not self.closed: try: self.sock.shutdown(SHUT_RDWR) except Exception: pass
CloserShutdown ==
    /\ closer.pc = "close1"
    /\ IF closed \/ endpoint.closed THEN UNCHANGED endpoint
       ELSE \E done \in BOOLEAN :
               endpoint' = [endpoint EXCEPT !.shut = @ \/ done]
    /\ closer' = [closer EXCEPT !.pc = "close2"]
    /\ UNCHANGED <<sock, rpos, accepted, call, ret, hist>>
    /\ UNCHANGED <<bvars, cvars>>

\* self.sock.close()
CloserSock ==
    /\ closer.pc = "close2"
    /\ endpoint' = IF closed THEN endpoint ELSE [endpoint EXCEPT !.closed = TRUE]
    /\ closer' = [closer EXCEPT !.pc = "close3"]
    /\ UNCHANGED <<sock, rpos, accepted, call, ret, hist>>
    /\ UNCHANGED <<bvars, cvars>>

\* self.sock = ClosedFile; close() returns
CloserAssign ==
    /\ closer.pc = "close3"
    /\ sock' = "ClosedFile"
    /\ closer' = [pc |-> "done", blocked |-> call.pc \in {"recv", "send"}]
    /\ hist' = [hist EXCEPT !.closed = TRUE]
    /\ UNCHANGED <<endpoint, rpos, accepted, call, ret>>
    /\ UNCHANGED <<bvars, cvars>>

\* the first context makes its one call
RaceCall ==
    /\ closer.pc = "idle" /\ ret = NoRet
    /\ CallRead \/ CallWrite

\* the steps of the first context's call
CallSteps ==
    \/ ReadLoop \/ ReadRecvData \/ ReadRecvEof \/ ReadRecvRaise
    \/ WriteLoop \/ WriteSend \/ WriteSendRaise
    \/ CloseShutdown \/ CloseSock \/ CloseAssign

\* the steps of the second context's close()
CloserSteps == CloserCall \/ CloserShutdown \/ CloserSock \/ CloserAssign

NextRace == RaceCall \/ CallSteps \/ CloserSteps

\* both contexts are scheduled: neither stops while it has a step to take
SpecRace ==
    InitStream /\ [][NextRace]_vars /\ WF_vars(CallSteps) /\ WF_vars(CloserSteps)

\* C11: if close() runs in one context while another is inside read or
\* write, then however the steps interleave the blocked call ends, by
\* raising EOFError and not by returning, and the stream is closed
C11_BlockedCallFails ==
    /\ [](closer.pc = "done" /\ closer.blocked /\ call.op = "idle" =>
             ret.outcome = "raise" /\ ret.exc.cls = "EOFError" /\ closed)
    /\ (closer.pc = "done" /\ closer.blocked) ~> (call.op = "idle")

(***************************************************************************)
(* Brine: the encoded forms                                                *)
(***************************************************************************)
\* n as a 32-bit big-endian length field
BigEndian32(n) ==
    <<(n \div 16777216) % 256, (n \div 65536) % 256, (n \div 256) % 256, n % 256>>

\* the tag and length field of a value of length n, given the empty-value
\* tag, the four per-length tags, the 8-bit-length and the 32-bit-length tag
FormOfLength(n, empty, perlen, l1, l4) ==
    IF n = 0 THEN <<empty>>
    ELSE IF n <= 4 THEN <<perlen[n]>>
    ELSE IF n <= 255 THEN <<l1, n>>
    ELSE <<l4>> \o BigEndian32(n)

StrForm(n) ==
    FormOfLength(n, TAG_EMPTY_STR, <<TAG_STR1, TAG_STR2, TAG_STR3, TAG_STR4>>,
                 TAG_STR_L1, TAG_STR_L4)

TupForm(n) ==
    FormOfLength(n, TAG_EMPTY_TUPLE, <<TAG_TUP1, TAG_TUP2, TAG_TUP3, TAG_TUP4>>,
                 TAG_TUP_L1, TAG_TUP_L4)

\* C12: the encoded form of a byte-string or a tuple is chosen by its length
\* alone: the empty-value tag for 0, the per-length tag with no length field
\* for 1-4 (a byte-string then takes 1 + len bytes), the 8-bit length form
\* for 5-255 and the 32-bit big-endian length form from 256 on
C12_FormByLength ==
    /\ obj.k = "bytes" /\ dres # Unset =>
          dres.err = "ok" /\ dres.v = StrForm(Len(obj.v)) \o obj.v
    /\ obj.k = "tuple" /\ dres # Unset /\ dres.err = "ok" =>
          /\ Len(dres.v) >= Len(TupForm(Len(obj.v)))
          /\ SubSeq(dres.v, 1, Len(TupForm(Len(obj.v)))) = TupForm(Len(obj.v))

\* C12 witness: a byte-string of 256 bytes was dumped in the 32-bit form
C12_Witness ==
    /\ obj.k = "bytes" /\ Len(obj.v) = 256 /\ dres.err = "ok"
    /\ SubSeq(dres.v, 1, 5) = <<TAG_STR_L4, 0, 0, 1, 0>>

\* the bytes of the decimal form: the digits and the minus sign
DecimalBytes == {45} \cup 48 .. 57

\* C13: an integer i with -48 <= i <= 159 is encoded as the one byte
\* i + 0x50, any other integer in the tagged decimal form; load maps a first
\* byte 0x20 .. 0xef to the integer (byte - 0x50) before any tag dispatch;
\* and no immediate-integer byte is a tag byte
C13_ImmediateInts ==
    /\ obj.k = "int" /\ dres # Unset =>
          /\ dres.err = "ok"
          /\ IF (0 - 48) <= obj.v /\ obj.v <= 159
             THEN dres.v = <<obj.v + 80>>
             ELSE /\ dres.v[1] = TAG_INT_L1 /\ dres.v[2] = Len(dres.v) - 2
                  /\ Len(dres.v) > 2
                  /\ \A i \in 3 .. Len(dres.v) : dres.v[i] \in DecimalBytes
    /\ lres # Unset /\ data # <<>> /\ data[1] \in 32 .. 239 =>
          lres = Ok(PyInt(data[1] - 80))
    /\ \A i \in DOMAIN IMM_INTS :
          /\ IMM_INTS[i] = i + 80
          /\ IMM_INTS[i] \notin load_registry_tags
          /\ IMM_INTS[i] \notin 0 .. TAG_COMPLEX
    /\ DOMAIN IMM_INTS_LOADER = 32 .. 239

\* C13 witness: 159 was dumped as the byte 0xef and loaded back from it
C13_Witness ==
    /\ obj = PyInt(159) /\ dres = Ok(<<239>>) /\ data = <<239>>
    /\ lres = Ok(PyInt(159))

(***************************************************************************)
(* exp_backoff (lib/__init__.py 88-95) on its own                          *)
(***************************************************************************)
\* the largest attempt number exp_backoff is given
MaxCollision == 12

\* exp_backoff is about to be called with attempt number n
InitBackoff ==
    /\ BrineStart /\ StreamStart
    /\ \E n \in 1 .. MaxCollision :
          conn = [ConnIdle EXCEPT !.pc = "exp_backoff", !.collision = n]

\* time.sleep(exp_backoff(collision))
ExpBackoff ==
    /\ conn.pc = "exp_backoff"
    /\ \E k \in exp_backoff(conn.collision) :
          conn' = [conn EXCEPT !.pc = "slept",
                               !.log = <<Event("sleep", 0, "none", k)>>]
    /\ UNCHANGED <<bvars, svars>>

NextBackoff == ExpBackoff

SpecBackoff == InitBackoff /\ [][NextBackoff]_vars

\* 2^min(n,10) - (1 if min(n,10) > 3 else 0) for n = 1 .. 10
DelayBounds == <<2, 4, 8, 15, 31, 63, 127, 255, 511, 1023>>

KeepaliveChoices == {0, 1, 0 - 1, 30}

\* _connect(host, port, ..., nodelay, keepalive, attempts) calls
\* socket_backoff_connect: sock = socket.socket(...); collision = 0
StreamConnect ==
    /\ conn.pc \in {"idle", "connected", "raised"}
    /\ \E a \in AttemptChoices, nd \in BOOLEAN, ka \in KeepaliveChoices :
          conn' = [ConnIdle EXCEPT !.pc = "loop", !.attempts = a, !.sock = 1,
                                   !.opened = 1, !.nodelay = nd, !.keepalive = ka,
                                   !.log = <<Event("open", 1, "none", 0)>>]
    /\ UNCHANGED <<bvars, svars>>

\* try: the setsockopt calls for nodelay and keepalive; return s
\* except BaseException: s.close(); raise
\* (is_linux: the socket module has TCP_KEEPIDLE, TCP_KEEPINTVL, TCP_KEEPCNT)
StreamConnectTune ==
    /\ conn.pc = "returned"
    /\ \E is_linux \in BOOLEAN, setsockopt_fails \in BOOLEAN :
          IF \/ setsockopt_fails /\ (conn.nodelay \/ conn.keepalive # 0)
             \/ is_linux /\ conn.keepalive # 0 /\ conn.keepalive < 1
          THEN conn' = [conn EXCEPT
                           !.pc = "raised",
                           !.exc = IF setsockopt_fails THEN Exc("OSError", "EINVAL")
                                   ELSE Exc("ValueError", "none"),
                           !.log = Append(@, Event("close", conn.sock, "none", 0))]
          ELSE conn' = [conn EXCEPT !.pc = "connected"]
    /\ UNCHANGED <<bvars, svars>>

NextStreamConnect ==
    StreamConnect \/ ConnectOk \/ ConnectFail \/ Backoff \/ StreamConnectTune

SpecStreamConnect == InitConnect /\ [][NextStreamConnect]_vars

\* the endpoints the call has opened and not closed
OpenEndpoints ==
    {conn.log[i].id : i \in {j \in 1 .. Len(conn.log) : conn.log[j].ev = "open"}}
    \ {conn.log[i].id : i \in {j \in 1 .. Len(conn.log) : conn.log[j].ev = "close"}}

\* C15: when _connect / socket_backoff_connect finishes, every endpoint it
\* opened has been closed, except the connected endpoint it returns: after
\* the final timeout, after a non-timeout connect error and after a failure
\* of the nodelay / keepalive tuning
C15_NoEndpointLeak ==
    /\ conn.pc = "connected" => OpenEndpoints = {conn.sock}
    /\ conn.pc = "raised" => OpenEndpoints = {}

====
